---- MODULE Spec2Model ----
(***************************************************************************)
(* m3f_tib_predictMex.c: predictions of the M3F-TIB model, averaged over   *)
(* Gibbs samples.  mexFunction accumulates, per sample, the d offsets, the *)
(* c offsets and the matrix-factorization term into preds, inside OpenMP   *)
(* parallel-for loops over the examples, then divides by the sample count. *)
(*                                                                         *)
(* Doubles are modelled in exact arithmetic as normalised rationals        *)
(* <<numerator, denominator>>.  A log-probability is the record            *)
(* [ln |-> q] standing for the double ln(q), so that exp is exact.         *)
(* Arrays are flat, column-major, indexed from 0 as in C (At).             *)
(***************************************************************************)
EXTENDS Integers, Sequences, FiniteSets, TLC

\* ------------------------------------------------------------------ bounds
MaxN == 2            \* examples per call
MaxT == 2            \* samples per call
MaxK == 2            \* topics per side
MaxF == 1            \* latent factors
NumUsers == 2        \* row entities
NumItems == 2        \* column entities
NumVariants == 2     \* distinct sample contents
MAX_NUM_THREADS == 2 \* OpenMP team size requested by mexFunction

\* mxGetData of an empty array
NULL == <<>>

\* ------------------------------------------------------- exact arithmetic
RECURSIVE Gcd(_, _)
Gcd(x, y) == IF y = 0 THEN x ELSE Gcd(y, x % y)

Abs(x) == IF x < 0 THEN -x ELSE x

Norm(n, d) ==
  LET g == Gcd(Abs(n), Abs(d))
      s == IF d < 0 THEN -1 ELSE 1
  IN  <<(s * n) \div g, (s * d) \div g>>

Q(n) == <<n, 1>>
Zero == Q(0)
RAdd(x, y) == Norm(x[1] * y[2] + y[1] * x[2], x[2] * y[2])
RMul(x, y) == Norm(x[1] * y[1], x[2] * y[2])
RDiv(x, y) == Norm(x[1] * y[2], x[2] * y[1])

\* exp() of math.h on a log-probability
exp(l) == l.ln

\* ------------------------------------------------------------ mx arrays
\* An mxArray of doubles: M rows, N columns, column-major data.
Matrix(m, n, data) == [M |-> m, N |-> n, pr |-> [i \in 1..(m * n) |-> data[i]]]
mxGetM(x) == x.M
mxGetN(x) == x.N
mxGetPr(x) == x.pr
\* p[i] for a C pointer p to the first element
At(p, i) == p[i + 1]
\* p + k
Ptr(p, k) == [i \in 1..(Len(p) - k) |-> p[i + k]]

\* ------------------------------------------------------------ the inputs
\* Content number v of a Gibbs sample with KU user topics, KM item topics
\* and numFacs factors.  Topic probabilities of an entity are the odd
\* numbers 1, 3, .. over K*K (they sum to 1), rotated by entity and content.
LogTheta(K, cols, shift) ==
  Matrix(K, cols,
         [i \in 1..(K * cols) |->
            LET k == (i - 1) % K
                u == (i - 1) \div K
                r == ((k + u + shift) % K) + 1
            IN  [ln |-> Norm(2 * r - 1, K * K)]])

SampleOf(v, ku, km, f) ==
  [chi       |-> Matrix(1, 1, <<Q(v)>>),
   logthetaU |-> LogTheta(ku, NumUsers, v - 1),
   logthetaM |-> LogTheta(km, NumItems, v),
   a         |-> Matrix(f, NumUsers, [i \in 1..(f * NumUsers) |-> Q(i + v)]),
   b         |-> Matrix(f, NumItems, [i \in 1..(f * NumItems) |-> Q(5 * i + v - 1)]),
   c         |-> Matrix(km, NumUsers, [i \in 1..(km * NumUsers) |-> Q(7 * i + v)]),
   d         |-> Matrix(ku, NumItems,
                        [i \in 1..(ku * NumItems) |-> Q(8 * i - 6 + 3 * (v - 1))])]

\* A 1 x T struct array of samples that share KU, KM and numFacs.
SampleArrays ==
  { [M |-> 1, N |-> Len(vs),
     el |-> [t \in 1..Len(vs) |-> SampleOf(vs[t], ku, km, f)]] :
      vs \in UNION { [1..T -> 1..NumVariants] : T \in 1..MaxT },
      ku \in 0..MaxK, km \in 0..MaxK, f \in 0..MaxF }

\* mxGetField(samples, t, name)
mxGetField(s, t, name) == s.el[t + 1][name]

\* Sampled topics of the examples: empty (NULL), or one topic per example,
\* the topics taken in turn from a first topic on.
Topics(N, K) ==
  {NULL} \cup { [e \in 1..N |-> ((e - 1 + s) % K) + 1] : s \in 0..(K - 1) }

\* ---------------------------------------------------------- addOffsets
\* The arguments of a call of addOffsets, named as its parameters.
Args(us, its, K, logtheta, off, z) ==
  [users |-> us, items |-> its, KU |-> K, logthetaU |-> logtheta, d |-> off, zU |-> z]

\* lines 76, 83, 93: the loop a call runs
Branch(f) ==
  IF f.zU # NULL THEN "given" ELSE IF f.KU > 1 THEN "integrate" ELSE "single"

\* How many times the body for one example adds to preds[e].
Rounds(f) == IF Branch(f) = "integrate" THEN f.KU ELSE 1

\* Term with the only topic's offset looked up by the primary entity.
TermSingleByUser(f, e, i) ==
  CASE Branch(f) = "given" ->
         At(f.d, (At(f.items, e) - 1) * f.KU + (At(f.zU, e) - 1))
    [] Branch(f) = "integrate" ->
         LET logthetaPtr == Ptr(f.logthetaU, (At(f.users, e) - 1) * f.KU)
             dPtr == Ptr(f.d, (At(f.items, e) - 1) * f.KU)
         IN  RMul(At(dPtr, i), exp(At(logthetaPtr, i)))
    [] OTHER ->
         At(f.d, (At(f.users, e) - 1) * f.KU)

\* Term with the given topic dropped from the index.
TermGivenIgnoresZ(f, e, i) ==
  CASE Branch(f) = "given" ->
         At(f.d, (At(f.items, e) - 1) * f.KU)
    [] Branch(f) = "integrate" ->
         LET logthetaPtr == Ptr(f.logthetaU, (At(f.users, e) - 1) * f.KU)
             dPtr == Ptr(f.d, (At(f.items, e) - 1) * f.KU)
         IN  RMul(At(dPtr, i), exp(At(logthetaPtr, i)))
    [] OTHER ->
         At(f.d, (At(f.items, e) - 1) * f.KU)

\* lines 80, 87-90, 97: what addition number i of example e adds to preds[e]
Term(f, e, i) ==
  CASE Branch(f) = "given" ->
         At(f.d, (At(f.items, e) - 1) * f.KU + (At(f.zU, e) - 1))
    [] Branch(f) = "integrate" ->
         LET logthetaPtr == Ptr(f.logthetaU, (At(f.users, e) - 1) * f.KU)
             dPtr == Ptr(f.d, (At(f.items, e) - 1) * f.KU)
         IN  RMul(At(dPtr, i), exp(At(logthetaPtr, i)))
    [] OTHER ->
         At(f.d, (At(f.items, e) - 1) * f.KU)

\* BLAS ddot: sum of x[i*incx] * y[i*incy] for i < n
RECURSIVE ddot(_, _, _, _, _)
ddot(n, x, incx, y, incy) ==
  IF n <= 0 THEN Zero
  ELSE RAdd(ddot(n - 1, x, incx, y, incy),
            RMul(At(x, (n - 1) * incx), At(y, (n - 1) * incy)))

\* lines 156-159: what the factorization loop adds to preds[e]
BaseTerm(ch, nf, a, b, us, its, e) ==
  LET aVec == Ptr(a, nf * (At(us, e) - 1))
      bVec == Ptr(b, nf * (At(its, e) - 1))
  IN  RAdd(ch, ddot(nf, aVec, 1, bVec, 1))

\* The body for example e run from addition i on, on the value v of preds[e].
RECURSIVE Body(_, _, _, _)
Body(f, e, i, v) ==
  IF i >= Rounds(f) THEN v ELSE Body(f, e, i + 1, RAdd(v, Term(f, e, i)))

\* addOffsets run by one thread: preds after the call
addOffsets(f, p) == [x \in 1..Len(p) |-> Body(f, x - 1, 0, p[x])]

\* ------------------------------------------- mexFunction, one thread
\* lines 115-118: the number of samples of the struct array
NumSamples(smp) ==
  IF mxGetN(smp) > mxGetM(smp) THEN mxGetN(smp) ELSE mxGetM(smp)

\* FlagC reading the entry of the d offsets.
FlagCFromThird(ad) == At(ad, 2)

\* lines 126-128: the three entries of the logical array add
FlagBase(ad) == At(ad, 0)
FlagC(ad) == At(ad, 1)
FlagD(ad) == At(ad, 2)

\* RunOffsets without its flag.
RunOffsetsUngated(K, flag) == K > 0

\* lines 146 and 149: whether a call of addOffsets is made
RunOffsets(K, flag) == K > 0 /\ flag

\* Averaged with the divisor one short.
AveragedOneShort(p, n) ==
  IF n > 1 THEN [x \in 1..Len(p) |-> RDiv(p[x], Q(n - 1))] ELSE p

\* lines 168-172: the average over the samples
Averaged(p, n) ==
  IF n > 1 THEN [x \in 1..Len(p) |-> RDiv(p[x], Q(n))] ELSE p

\* lines 152-166 run by one thread: preds after the factorization step
addBaseTerms(flag, ch, nf, a, b, us, its, p) ==
  IF ~flag THEN p
  ELSE IF nf > 0
       THEN [x \in 1..Len(p) |-> RAdd(p[x], BaseTerm(ch, nf, a, b, us, its, x - 1))]
       ELSE [x \in 1..Len(p) |-> RAdd(p[x], ch)]

\* mexFunction run by one thread, as a function of its arguments
predict(us, its, smp, zu, zm, ad) ==
  LET T == NumSamples(smp)
      ch == At(mxGetPr(mxGetField(smp, 0, "chi")), 0)
      ku == mxGetM(mxGetField(smp, 0, "logthetaU"))
      km == mxGetM(mxGetField(smp, 0, "logthetaM"))
      nf == mxGetM(mxGetField(smp, 0, "a"))
      RECURSIVE Loop(_, _)
      Loop(tt, p) ==
        IF tt >= T THEN p
        ELSE LET p1 == IF RunOffsets(ku, FlagD(ad))
                       THEN addOffsets(Args(us, its, ku,
                                            mxGetPr(mxGetField(smp, tt, "logthetaU")),
                                            mxGetPr(mxGetField(smp, tt, "d")), zu), p)
                       ELSE p
                 p2 == IF RunOffsets(km, FlagC(ad))
                       THEN addOffsets(Args(its, us, km,
                                            mxGetPr(mxGetField(smp, tt, "logthetaM")),
                                            mxGetPr(mxGetField(smp, tt, "c")), zm), p1)
                       ELSE p1
                 p3 == addBaseTerms(FlagBase(ad), ch, nf,
                                    mxGetPr(mxGetField(smp, tt, "a")),
                                    mxGetPr(mxGetField(smp, tt, "b")), us, its, p2)
             IN  Loop(tt + 1, p3)
  IN  Averaged(Loop(0, [x \in 1..Len(us) |-> Zero]), T)

VARIABLES
  users, items, samples, zU, zM, add,     \* prhs[0..5]
  preds,                                  \* plhs[0]
  numExamples, numSamples, chi, KU, KM, numFacs, addBase, addC, addD,
  t,                                      \* sample loop counter
  pc,                                     \* position in mexFunction
  todo,                                   \* iterations of the running parallel for not yet started
  wk,                                     \* what each thread of the team is doing
  entry                                   \* preds on entry to the running parallel for

inputs == <<users, items, samples, zU, zM, add>>
locals == <<numExamples, numSamples, chi, KU, KM, numFacs, addBase, addC, addD>>
vars == <<inputs, preds, locals, t, pc, todo, wk, entry>>

Threads == 1..MAX_NUM_THREADS
Idle == [st |-> "idle", e |-> 0, i |-> 0, tmp |-> Zero, ph |-> "none", t |-> 0]

Init ==
  /\ \E N \in 1..MaxN :
       /\ users \in [1..N -> 1..NumUsers]
       /\ items \in [1..N -> 1..NumItems]
       /\ samples \in SampleArrays
       /\ zU \in Topics(N, mxGetM(samples.el[1].logthetaU))
       /\ zM \in Topics(N, mxGetM(samples.el[1].logthetaM))
  /\ add \in [1..3 -> BOOLEAN]
  /\ preds = <<>>
  /\ numExamples = 0 /\ numSamples = 0 /\ chi = Zero
  /\ KU = 0 /\ KM = 0 /\ numFacs = 0
  /\ addBase = FALSE /\ addC = FALSE /\ addD = FALSE
  /\ t = 0
  /\ pc = "extract"
  /\ todo = {}
  /\ wk = [w \in Threads |-> Idle]
  /\ entry = <<>>

\* ------------------------------------------------------- mexFunction
AllIdle == \A w \in Threads : wk[w].st = "idle"
Examples == 0..(numExamples - 1)

\* lines 107-133: read the arguments, allocate the zeroed output
Extract ==
  /\ pc = "extract"
  /\ numExamples' = Len(users)
  /\ numSamples' = NumSamples(samples)
  /\ chi' = At(mxGetPr(mxGetField(samples, 0, "chi")), 0)
  /\ KU' = mxGetM(mxGetField(samples, 0, "logthetaU"))
  /\ KM' = mxGetM(mxGetField(samples, 0, "logthetaM"))
  /\ numFacs' = mxGetM(mxGetField(samples, 0, "a"))
  /\ addBase' = FlagBase(add)
  /\ addC' = FlagC(add)
  /\ addD' = FlagD(add)
  /\ preds' = [e \in 1..Len(users) |-> Zero]
  /\ t' = 0
  /\ pc' = "for"
  /\ UNCHANGED <<inputs, todo, wk, entry>>

\* line 138: the loop test of the sample loop
ForSample ==
  /\ pc = "for"
  /\ pc' = (IF t < numSamples THEN "ifD" ELSE "avg")
  /\ UNCHANGED <<inputs, preds, locals, t, todo, wk, entry>>

\* Entering a parallel for: every iteration is still to be handed out.
Fork(where) ==
  /\ pc' = where
  /\ todo' = Examples
  /\ entry' = preds

\* lines 146-147
IfD ==
  /\ pc = "ifD"
  /\ IF RunOffsets(KU, addD)
     THEN Fork("inD")
     ELSE pc' = "ifC" /\ UNCHANGED <<todo, entry>>
  /\ UNCHANGED <<inputs, preds, locals, t, wk>>

\* lines 149-150
IfC ==
  /\ pc = "ifC"
  /\ IF RunOffsets(KM, addC)
     THEN Fork("inC")
     ELSE pc' = "ifBase" /\ UNCHANGED <<todo, entry>>
  /\ UNCHANGED <<inputs, preds, locals, t, wk>>


\* The call of addOffsets at line 147 (site "inD") or 150 (site "inC"), for sample tt.
CallArgs(site, tt) ==
  IF site = "inD"
  THEN Args(users, items, KU, mxGetPr(mxGetField(samples, tt, "logthetaU")),
            mxGetPr(mxGetField(samples, tt, "d")), zU)
  ELSE Args(items, users, KM, mxGetPr(mxGetField(samples, tt, "logthetaM")),
            mxGetPr(mxGetField(samples, tt, "c")), zM)

\* lines 152-166
IfBase ==
  /\ pc = "ifBase"
  /\ IF addBase /\ numFacs > 0
     THEN Fork("inBase") /\ UNCHANGED <<preds, t>>
     ELSE /\ preds' = addBaseTerms(addBase, chi, numFacs, mxGetPr(mxGetField(samples, t, "a")),
                                       mxGetPr(mxGetField(samples, t, "b")), users, items, preds)
          /\ t' = t + 1
          /\ pc' = "for"
          /\ UNCHANGED <<todo, entry>>
  /\ UNCHANGED <<inputs, locals, wk>>

\* ------------------------------------------------- the parallel for loops
InParallel == pc \in {"inD", "inC", "inBase"}

\* Slot with every example on the first element.
SlotFirst(e) == 0

\* The element of preds the body for example e reads and writes.
Slot(e) == e

\* Store that also rewrites the example's user index.
StoreAndClobber(slot, v) ==
  /\ preds' = [preds EXCEPT ![slot + 1] = v]
  /\ users' = [users EXCEPT ![slot + 1] = 1 + (@ % NumUsers)]
  /\ UNCHANGED <<items, samples, zU, zM, add>>

\* A store to preds[slot].
Store(slot, v) ==
  /\ preds' = [preds EXCEPT ![slot + 1] = v]
  /\ UNCHANGED inputs

\* How often the body that thread w runs adds to preds, and what it adds next.
RoundsOf(w) ==
  IF wk[w].ph = "inBase" THEN 1 ELSE Rounds(CallArgs(wk[w].ph, wk[w].t))
TermOf(w) ==
  IF wk[w].ph = "inBase"
  THEN BaseTerm(chi, numFacs, mxGetPr(mxGetField(samples, wk[w].t, "a")),
                mxGetPr(mxGetField(samples, wk[w].t, "b")), users, items, wk[w].e)
  ELSE Term(CallArgs(wk[w].ph, wk[w].t), wk[w].e, wk[w].i)

\* The OpenMP runtime hands an iteration to a thread of the team.
Dispatch(w) ==
  /\ InParallel
  /\ wk[w].st = "idle"
  /\ \E e \in todo :
       /\ wk' = [wk EXCEPT ![w] = [st |-> "load", e |-> e, i |-> 0, tmp |-> Zero,
                                   ph |-> pc, t |-> t]]
       /\ todo' = todo \ {e}
  /\ UNCHANGED <<inputs, preds, locals, t, pc, entry>>

\* preds[e] += x, first half: the load of preds[e]
Load(w) ==
  /\ wk[w].st = "load"
  /\ wk' = [wk EXCEPT ![w].st = "store", ![w].tmp = At(preds, Slot(wk[w].e))]
  /\ UNCHANGED <<inputs, preds, locals, t, pc, todo, entry>>

\* preds[e] += x, second half: the store of the sum; then the next addition
\* of the body, or the end of the iteration
StoreSum(w) ==
  /\ wk[w].st = "store"
  /\ Store(Slot(wk[w].e), RAdd(wk[w].tmp, TermOf(w)))
  /\ wk' = [wk EXCEPT ![w] = IF wk[w].i + 1 < RoundsOf(w)
                             THEN [wk[w] EXCEPT !.st = "load", !.i = wk[w].i + 1,
                                                !.tmp = Zero]
                             ELSE Idle]
  /\ UNCHANGED <<locals, t, pc, todo, entry>>

\* Barrier that waits for no thread (nowait).
BarrierNoWait == todo = {}

\* The implicit barrier that ends a parallel for.
Barrier == todo = {} /\ AllIdle

Join ==
  /\ InParallel
  /\ Barrier
  /\ pc' = (CASE pc = "inD" -> "ifC" [] pc = "inC" -> "ifBase" [] OTHER -> "for")
  /\ t' = (IF pc = "inBase" THEN t + 1 ELSE t)
  /\ UNCHANGED <<inputs, preds, locals, todo, wk, entry>>

\* lines 168-172
Average ==
  /\ pc = "avg"
  /\ preds' = Averaged(preds, numSamples)
  /\ pc' = "done"
  /\ UNCHANGED <<inputs, locals, t, todo, wk, entry>>

Next ==
  \/ Extract
  \/ ForSample
  \/ IfD
  \/ IfC
  \/ IfBase
  \/ \E w \in Threads : Dispatch(w)
  \/ \E w \in Threads : Load(w)
  \/ \E w \in Threads : StoreSum(w)
  \/ Join
  \/ Average

Spec == Init /\ [][Next]_vars

\* ====================================================================
\* The properties
\* ====================================================================
\* Entry (r, c) of a matrix, sum of a sequence of numbers, and the terms of
\* the prediction as the model of the paper states them.
El(m, r, c) == m.pr[(c - 1) * m.M + r]

RECURSIVE RSum(_)
RSum(q) == IF q = <<>> THEN Zero ELSE RAdd(q[1], RSum(Tail(q)))

T == Len(samples.el)
Sample(tt) == samples.el[tt]
Zeros == [x \in 1..Len(users) |-> Zero]
Done == pc = "done"
Active(w) == wk[w].st # "idle"

\* What one offset table adds for the example x: offset[z[x], secondary[x]]
\* when z is given, else the expectation under p = exp(logTheta) when there
\* are several topics, else offset[1, secondary[x]].
OffsetDelta(primary, secondary, K, logTheta, offset, z, x) ==
  IF z # NULL THEN El(offset, z[x], secondary[x])
  ELSE IF K > 1
       THEN RSum([k \in 1..K |-> RMul(El(offset, k, secondary[x]),
                                      exp(El(logTheta, k, primary[x])))])
       ELSE El(offset, 1, secondary[x])

RowTopicTerm(tt, x) ==
  IF Sample(tt).logthetaU.M = 0 THEN Zero
  ELSE OffsetDelta(users, items, Sample(tt).logthetaU.M, Sample(tt).logthetaU,
                   Sample(tt).d, zU, x)

ColTopicTerm(tt, x) ==
  IF Sample(tt).logthetaM.M = 0 THEN Zero
  ELSE OffsetDelta(items, users, Sample(tt).logthetaM.M, Sample(tt).logthetaM,
                   Sample(tt).c, zM, x)

FactorizationTerm(tt, x) ==
  RAdd(Sample(tt).chi.pr[1],
       RSum([f \in 1..Sample(tt).a.M |->
               RMul(El(Sample(tt).a, f, users[x]), El(Sample(tt).b, f, items[x]))]))

\* The average over the samples of the terms chosen by (base, row, col).
Mean(base, row, col) ==
  [x \in 1..Len(users) |->
     RDiv(RSum([tt \in 1..T |->
                  RAdd(IF base THEN FactorizationTerm(tt, x) ELSE Zero,
                       RAdd(IF row THEN RowTopicTerm(tt, x) ELSE Zero,
                            IF col THEN ColTopicTerm(tt, x) ELSE Zero))]),
          Q(T))]

\* C1: the output is the average over the samples of the enabled terms, the
\* factorization term of sample t being that sample's own chi plus the inner
\* product of its factor vectors (chi alone without factors).
C1_OwnChiPerSample ==
  Done => preds = Mean(add[1], add[3], add[2])

\* C2: the output for T samples is the elementwise average of the outputs of
\* the T calls on one sample each, with the same dyads, flags and topics.
OneSample(tt) == [M |-> 1, N |-> 1, el |-> <<Sample(tt)>>]
C2_LinearInSamples ==
  Done =>
    \A x \in 1..Len(users) :
      preds[x] = RDiv(RSum([tt \in 1..T |->
                              predict(users, items, OneSample(tt), zU, zM, add)[x]]),
                      Q(T))

\* C3, as stated: the second flag gates the row-topic term (d, zU) and the
\* third the column-topic term (c, zM).
C3_SecondFlagGatesRowTopics ==
  Done =>
    /\ (add = <<FALSE, TRUE, FALSE>> => preds = Mean(FALSE, TRUE, FALSE))
    /\ (add = <<FALSE, FALSE, TRUE>> => preds = Mean(FALSE, FALSE, TRUE))

\* C3, amended: the flags are (base, c offsets, d offsets); the second gates
\* the column-topic term (KM, logthetaM, c, zM), the third the row-topic term
\* (KU, logthetaU, d, zU).
C3_SecondFlagGatesColTopics ==
  Done =>
    /\ (add = <<FALSE, TRUE, FALSE>> => preds = Mean(FALSE, FALSE, TRUE))
    /\ (add = <<FALSE, FALSE, TRUE>> => preds = Mean(FALSE, TRUE, FALSE))

C3_Witness ==
  /\ Done
  /\ add = <<FALSE, TRUE, FALSE>>
  /\ KU > 0 /\ KM > 0
  /\ preds # Zeros

\* C4: with the three flags false the output is zero in every entry from its
\* allocation on, and no loop whose flag is false ever runs.
C4_AllFlagsFalseGivesZero ==
  /\ (pc # "extract" /\ add = <<FALSE, FALSE, FALSE>>) => preds = Zeros
  /\ pc = "inD" => add[3]
  /\ pc = "inC" => add[2]
  /\ pc = "inBase" => add[1]

C4_Witness ==
  /\ Done
  /\ add = <<FALSE, FALSE, FALSE>>
  /\ KU > 1 /\ KM > 0 /\ numFacs > 0 /\ numSamples > 1
  /\ zU # NULL /\ zM = NULL

\* C5: threads at work at the same time work on different elements of preds,
\* each on the element of its own example; and a thread is at work only in
\* the parallel for that is running, of the sample that is running.
C5_NoRaceAndBarrier ==
  /\ \A w \in Threads : Active(w) =>
       /\ Slot(wk[w].e) = wk[w].e
       /\ wk[w].ph = pc /\ wk[w].t = t
  /\ \A w1, w2 \in Threads :
       (w1 # w2 /\ Active(w1) /\ Active(w2)) => Slot(wk[w1].e) # Slot(wk[w2].e)
  /\ ~InParallel => AllIdle

C5_Witness ==
  /\ Len(users) > 1
  /\ users[1] = users[2] /\ items[1] = items[2]
  /\ \A w \in Threads : wk[w].st = "store"
  /\ t > 0

\* C6: with one topic, addOffsets without z and addOffsets with z all ones
\* leave the same preds; so does mexFunction for zU.
OtherZ(z) == IF z = NULL THEN [x \in 1..Len(users) |-> 1] ELSE NULL
C6_OneTopicEitherWay ==
  /\ (pc \in {"inD", "inC"} /\ Barrier /\ CallArgs(pc, t).KU = 1) =>
       preds = addOffsets([CallArgs(pc, t) EXCEPT !.zU = OtherZ(@)], entry)
  /\ (Done /\ KU = 1) =>
       preds = predict(users, items, samples, OtherZ(zU), zM, add)

C6_Witness ==
  /\ Done
  /\ KU = 1 /\ addD /\ zU # NULL
  /\ preds # Zeros

\* C7: T copies of one sample give the output of that sample alone; the sum
\* is divided by the number of samples accumulated, and only when T > 1.
C7_CopiesAverageToOne ==
  /\ (Done /\ \A tt \in 1..T : Sample(tt) = Sample(1)) =>
       preds = predict(users, items, OneSample(1), zU, zM, add)
  /\ pc \in {"avg", "done"} => t = numSamples /\ numSamples = T

C7_Witness ==
  /\ Done
  /\ T > 1
  /\ \A tt \in 1..T : Sample(tt) = Sample(1)
  /\ preds # Zeros

\* C8: no step of a call changes users, items, samples, zU, zM or the flags.
C8_InputsUnchanged == [][inputs' = inputs]_vars

C8_Witness ==
  /\ Done
  /\ T > 1
  /\ add = <<TRUE, TRUE, TRUE>>
  /\ preds # Zeros

\* C9: when a call of addOffsets has finished, every preds[e] is its value on
\* entry plus the term of the one case of the call; without z the result does
\* not depend on logTheta unless there are several topics.
C9_AddOffsetsAddsDelta ==
  (pc \in {"inD", "inC"} /\ Barrier) =>
    /\ \A x \in 1..Len(users) :
         preds[x] = RAdd(entry[x], IF pc = "inD" THEN RowTopicTerm(t + 1, x)
                                                  ELSE ColTopicTerm(t + 1, x))
    /\ Branch(CallArgs(pc, t)) # "integrate" =>
         preds = addOffsets([CallArgs(pc, t) EXCEPT !.logthetaU = <<>>], entry)

\* p = (1/4, 3/4) and offsets (2, 10) add 8.
C9_Witness ==
  /\ pc = "inD" /\ Barrier
  /\ zU = NULL /\ KU = 2
  /\ users[1] = 1 /\ items[1] = 1
  /\ exp(El(Sample(t + 1).logthetaU, 1, 1)) = <<1, 4>>
  /\ exp(El(Sample(t + 1).logthetaU, 2, 1)) = <<3, 4>>
  /\ El(Sample(t + 1).d, 1, 1) = Q(2) /\ El(Sample(t + 1).d, 2, 1) = Q(10)
  /\ preds[1] = RAdd(entry[1], Q(8))
  /\ entry[1] # Zero

\* C10: whatever the threads and their interleaving, a call that has finished
\* has accumulated every sample and left the output of the run by one thread;
\* and a call that has not finished can take a step (a thread that has loaded
\* preds[e] can always store the sum).
C10_ScheduleIndependent ==
  /\ Done => /\ preds = predict(users, items, samples, zU, zM, add)
             /\ t = numSamples
             /\ AllIdle /\ todo = {}
  /\ ~Done => \/ ENABLED Extract \/ ENABLED ForSample \/ ENABLED IfD \/ ENABLED IfC
              \/ ENABLED IfBase \/ ENABLED Join \/ ENABLED Average
              \/ \E w \in Threads :
                    ENABLED Dispatch(w) \/ ENABLED Load(w) \/ wk[w].st = "store"

C10_Witness ==
  /\ Done
  /\ Len(users) > 1
  /\ T > 1
  /\ add = <<TRUE, TRUE, TRUE>>
  /\ KU > 1 /\ KM > 1 /\ numFacs > 0
  /\ zU = NULL /\ zM = NULL

====
